---- MODULE Spec2Model ----
(***************************************************************************)
(* A model of @xstd/mime-type: the MIMEType class and its parameter list   *)
(* MIMETypeParameters.                                                     *)
(*                                                                         *)
(* A string is a sequence of characters; a character is a one-element      *)
(* sample of a class of code points the program tells apart.  Offsets into *)
(* strings are the 0-based offsets of the source (At).                     *)
(*                                                                         *)
(* The repository holds two variants of the parameter list:                *)
(*   "standalone"  the self-contained class (src/unnamed/part_003);        *)
(*   "mapped"      the class built on mappedListFactory                    *)
(*                 (src/src/mime-type-parameters/mime-type-parameters.ts). *)
(* The variant is fixed by Init; what the two share is modelled once.      *)
(***************************************************************************)
EXTENDS Integers, Sequences, FiniteSets, TLC

VARIABLES
  variant,      \* which parameter-list class is built: "standalone" | "mapped"
  kind,         \* the entity held: "none" | "MIMETypeParameters" | "MIMEType"
  type,         \* MIMEType.#type
  subtype,      \* MIMEType.#subtype
  immutable,    \* the MIMEType's immutable flag
  parameters,   \* the parameter list: a sequence of <<key, value>>
  pImmutable,   \* the parameter list's immutable flag
  lastIndex,    \* MIMETypeParameterRegExp.lastIndex (module-level, shared)
  ret,          \* the last call: [op, arg, threw, value]
  buffer        \* the input string being written, before it is given to a constructor

vars == <<variant, kind, type, subtype, immutable, parameters, pImmutable, lastIndex, ret, buffer>>

(***************************************************************************)
(* Bounds                                                                  *)
(***************************************************************************)
MaxSize == 2
MaxPieces == 4

(***************************************************************************)
(* Characters                                                              *)
(***************************************************************************)
DQ == "\""
BS == "\\"
SP == " "
LF == "LF"

\* The sample of code points: separators, quote, backslash, two white-space
\* characters (U+0020 and U+000A), token characters in both cases, and "/",
\* a visible character outside the token set.
Chars == {";", "=", DQ, BS, SP, LF, "a", "b", "A", "/"}

\* [0-9a-zA-Z!#$%&'*+\-.^_`|~]
TokenChars == {"a", "b", "A"}

\* [\u0009 -~]
RestrictedChars == Chars \ {LF}

\* \s of a JavaScript regular expression
SpaceChars == {SP, LF}

At(s, i) == s[i + 1]

\* String.prototype.slice(from, to) for 0 <= from <= to <= length
Slice(s, from, to) == SubSeq(s, from + 1, to)

\* String.prototype.indexOf(c): the first offset of c, or -1
IndexOf(s, c) ==
  IF \E i \in 0..(Len(s) - 1) : At(s, i) = c
  THEN CHOOSE i \in 0..(Len(s) - 1) :
         At(s, i) = c /\ \A j \in 0..(i - 1) : At(s, j) # c
  ELSE -1

LowerChar(c) == IF c = "A" THEN "a" ELSE c

\* String.prototype.toLowerCase
ToLowerCase(s) == [i \in DOMAIN s |-> LowerChar(s[i])]

\* String.prototype.replaceAll(c, '') : every c removed
RemoveAll(s, c) == SelectSeq(s, LAMBDA x : x # c)

\* String.prototype.replaceAll(c, '\\' + c) : every c preceded by a backslash
RECURSIVE EscapeAll(_, _)
EscapeAll(s, c) ==
  IF s = <<>> THEN <<>>
  ELSE (IF Head(s) = c THEN <<BS, c>> ELSE <<Head(s)>>) \o EscapeAll(Tail(s), c)

(***************************************************************************)
(* Validation predicates                                                   *)
(***************************************************************************)
\* MIMETypeParameterKeyRegExp, MIMETypeTypeRegExp, MIMETypeSubtypeRegExp: ^TOKEN+$
IsToken(s) == Len(s) > 0 /\ \A i \in DOMAIN s : s[i] \in TokenChars

\* MIMETypeParameterValueRegExp: ^[\u0009\u0020-\u007e]*$
IsRestrictedText(s) == \A i \in DOMAIN s : s[i] \in RestrictedChars

\* MIMETypeParameterValueRequiringQuotingRegExp: [^TOKEN]
RequiresQuoting(s) == \E i \in DOMAIN s : s[i] \notin TokenChars

(***************************************************************************)
(* MIMETypeParameterRegExp:                                                *)
(*   ;\s*(TOKEN+)=(?:"((?:[^"\\]|\\"|\\[^"])+?)"|(TOKEN+))\s*   with flag g     *)
(***************************************************************************)
\* \s* : the offset after the longest run of white space from i
RECURSIVE SkipSpaces(_, _)
SkipSpaces(s, i) ==
  IF i < Len(s) /\ At(s, i) \in SpaceChars THEN SkipSpaces(s, i + 1) ELSE i

\* TOKEN+ : the offset after the longest run of token characters from i
RECURSIVE TokenRun(_, _)
TokenRun(s, i) ==
  IF i < Len(s) /\ At(s, i) \in TokenChars THEN TokenRun(s, i + 1) ELSE i

\* (?:[^"\\]|\\"|\\[^"])+? then " : the offset of the closing quote of a body
\* that starts at i, or -1.  No alternative starts with a quote, a backslash
\* takes the character after it whatever it is, so the first quote met at
\* the head of an element is the one the lazy quantifier stops at.
RECURSIVE QuotedBodyEnd(_, _)
QuotedBodyEnd(s, i) ==
  IF i >= Len(s) THEN -1
  ELSE IF At(s, i) = DQ THEN i
  ELSE IF At(s, i) = BS
       THEN (IF i + 1 < Len(s) THEN QuotedBodyEnd(s, i + 2) ELSE -1)
  ELSE QuotedBodyEnd(s, i + 1)

NoMatch == [found |-> FALSE, index |-> -1, end |-> -1,
            g1 |-> <<>>, g2 |-> <<>>, g3 |-> <<>>, g3undefined |-> TRUE]

\* "(...)" then \s*, the body ending at the quote at offset close (-1: none):
\* the body holds at least one element
MatchQuoted(s, i, k0, k1, close) ==
  IF close > k1 + 2
  THEN [found |-> TRUE, index |-> i, end |-> SkipSpaces(s, close + 1),
        g1 |-> Slice(s, k0, k1), g2 |-> Slice(s, k1 + 2, close),
        g3 |-> <<>>, g3undefined |-> TRUE]
  ELSE NoMatch

\* (TOKEN+) then \s*, the token ending before offset v1
MatchToken(s, i, k0, k1, v1) ==
  IF v1 > k1 + 1
  THEN [found |-> TRUE, index |-> i, end |-> SkipSpaces(s, v1),
        g1 |-> Slice(s, k0, k1), g2 |-> <<>>,
        g3 |-> Slice(s, k1 + 1, v1), g3undefined |-> FALSE]
  ELSE NoMatch

\* (TOKEN+)= with the key in k0..k1, then the alternative: a value that
\* starts with a quote can only be the quoted one
MatchValue(s, i, k0, k1) ==
  IF k1 = k0 \/ ~(k1 < Len(s) /\ At(s, k1) = "=") THEN NoMatch
  ELSE IF k1 + 1 < Len(s) /\ At(s, k1 + 1) = DQ
       THEN MatchQuoted(s, i, k0, k1, QuotedBodyEnd(s, k1 + 2))
       ELSE MatchToken(s, i, k0, k1, TokenRun(s, k1 + 1))

MatchKey(s, i, k0) == MatchValue(s, i, k0, TokenRun(s, k0))

\* The match of the expression anchored at offset i: index, the offset after
\* match[0] (end), and the groups match[1], match[2], match[3]
MatchAt(s, i) ==
  IF ~(i < Len(s) /\ At(s, i) = ";") THEN NoMatch
  ELSE MatchKey(s, i, SkipSpaces(s, i + 1))

\* RegExp.prototype.exec with flag g: the first match at or after offset from
\* (the expression is not sticky: the characters before the match are skipped)
RECURSIVE Exec(_, _)
ExecTry(s, from, match) == IF match.found THEN match ELSE Exec(s, from + 1)

Exec(s, from) ==
  IF from >= Len(s) THEN NoMatch ELSE ExecTry(s, from, MatchAt(s, from))

\* the tuple of a match, the quoted value taken as written
MatchedTuple_Verbatim(match) ==
  <<match.g1, IF match.g3undefined THEN match.g2 ELSE match.g3>>

\* The tuple pushed for a match: a quoted value loses its backslashes
MatchedTuple(match) ==
  IF match.g3undefined
  THEN <<match.g1, RemoveAll(match.g2, BS)>>
  ELSE <<match.g1, match.g3>>

\* The while loop of the constructor: index is the offset after the last
\* match, pairs the tuples pushed so far.  exec leaves lastIndex at 0 when it
\* returns null.
RECURSIVE ScanParameters(_, _, _, _)
ScanStep(init, index, pairs, match) ==
  IF ~match.found THEN [index |-> index, pairs |-> pairs, lastIndex |-> 0]
  ELSE ScanParameters(init, match.end, match.index + (match.end - match.index),
                      Append(pairs, MatchedTuple(match)))

ScanParameters(init, from, index, pairs) ==
  ScanStep(init, index, pairs, Exec(init, from))

\* if (!init.startsWith(';')) init = ';' + init
WithLeadingSeparator(init) ==
  IF Len(init) > 0 /\ init[1] = ";" THEN init ELSE <<";">> \o init

\* if (index !== init.length) throw
CheckIndex(s, r) == [threw |-> r.index # Len(s), pairs |-> r.pairs, lastIndex |-> r.lastIndex]

\* MIMETypeParameterRegExp.lastIndex = 0, then the loop and the check
ScanAll(s) == CheckIndex(s, ScanParameters(s, 0, 0, <<>>))

\* The string branch of the constructor for a non-empty string: the tuples
\* scanned, and whether the index check throws
ParseString(init) == ScanAll(WithLeadingSeparator(init))

(***************************************************************************)
(* The parameter list: validation and the private list operations          *)
(***************************************************************************)
\* An argument that was not passed, and the null a miss returns
Undefined == <<"undefined">>
Null == <<"null">>

\* validateKey / checkAndNormalizeMIMETypeParameterKey: throws unless a token
KeyThrows(key) == ~IsToken(key)

\* the key validateKey / checkAndNormalizeMIMETypeParameterKey returns
NormalizeKey(key) == ToLowerCase(key)

\* validateValue / checkAndNormalizeMIMETypeParameterValue: an absent value passes
ValueThrows(value) == value # Undefined /\ ~IsRestrictedText(value)

\* #append with unshift in the place of push
ListAppend_Unshift(list, key, value) == <<<<key, value>>>> \o list

\* #append
ListAppend(list, key, value) == Append(list, <<key, value>>)

\* Array.prototype.splice(i, 1) at offset i
SpliceOne(list, i) == SubSeq(list, 1, i) \o SubSeq(list, i + 2, Len(list))

\* #delete: the for loop, with i-- after a splice
RECURSIVE DeleteFrom(_, _, _, _)
DeleteFrom(list, i, key, value) ==
  IF i >= Len(list) THEN list
  ELSE IF At(list, i)[1] = key /\ (value = Undefined \/ At(list, i)[2] = value)
       THEN DeleteFrom(SpliceOne(list, i), (i - 1) + 1, key, value)
       ELSE DeleteFrom(list, i + 1, key, value)

ListDelete(list, key, value) == DeleteFrom(list, 0, key, value)

\* #get: the first value stored under key, or null
RECURSIVE GetFrom(_, _, _)
GetFrom(list, i, key) ==
  IF i >= Len(list) THEN Null
  ELSE IF At(list, i)[1] = key THEN At(list, i)[2]
  ELSE GetFrom(list, i + 1, key)

ListGet(list, key) == GetFrom(list, 0, key)

\* #getAll
RECURSIVE GetAllFrom(_, _, _, _)
GetAllFrom(list, i, key, values) ==
  IF i >= Len(list) THEN values
  ELSE GetAllFrom(list, i + 1, key,
         IF At(list, i)[1] = key THEN Append(values, At(list, i)[2]) ELSE values)

\* #getAll that returns after the first tuple found
ListGetAll_FirstOnly(list, key) ==
  IF ListGet(list, key) = Null THEN <<>> ELSE <<ListGet(list, key)>>

ListGetAll(list, key) == GetAllFrom(list, 0, key, <<>>)

\* #has
RECURSIVE HasFrom(_, _, _, _)
HasFrom(list, i, key, value) ==
  IF i >= Len(list) THEN FALSE
  ELSE IF At(list, i)[1] = key /\ (value = Undefined \/ At(list, i)[2] = value) THEN TRUE
  ELSE HasFrom(list, i + 1, key, value)

\* #has that takes an empty value for an absent one (!value)
ListHas_EmptyIsAbsent(list, key, value) ==
  HasFrom(list, 0, key, IF value = <<>> THEN Undefined ELSE value)

ListHas(list, key, value) == HasFrom(list, 0, key, value)

\* #set that deletes only the tuples with the value given
ListSet_DeletesPair(list, key, value) == ListAppend(ListDelete(list, key, value), key, value)

\* #set
ListSet(list, key, value) == ListAppend(ListDelete(list, key, Undefined), key, value)

\* The code point of a character
CodePoint(c) ==
  CASE c = LF -> 10 [] c = SP -> 32 [] c = DQ -> 34 [] c = "/" -> 47
    [] c = ";" -> 59 [] c = "=" -> 61 [] c = "A" -> 65 [] c = BS -> 92
    [] c = "a" -> 97 [] c = "b" -> 98

\* keyA < keyB on strings
RECURSIVE StringLess(_, _)
StringLess(x, y) ==
  IF y = <<>> THEN FALSE
  ELSE IF x = <<>> THEN TRUE
  ELSE IF Head(x) # Head(y) THEN CodePoint(Head(x)) < CodePoint(Head(y))
  ELSE StringLess(Tail(x), Tail(y))

\* The comparator given to Array.prototype.sort
CompareKeys(a, b) ==
  IF StringLess(a[1], b[1]) THEN -1
  ELSE IF StringLess(b[1], a[1]) THEN 1
  ELSE 0

\* an insertion that puts each element before the elements of equal key
RECURSIVE InsertSorted_BeforeEqual(_, _)
InsertSorted_BeforeEqual(sorted, x) ==
  IF sorted = <<>> THEN <<x>>
  ELSE IF CompareKeys(x, Head(sorted)) <= 0 THEN <<x>> \o sorted
  ELSE <<Head(sorted)>> \o InsertSorted_BeforeEqual(Tail(sorted), x)

\* Array.prototype.sort is stable: an insertion sort that puts each element
\* after the elements it does not precede
RECURSIVE InsertSorted(_, _)
InsertSorted(sorted, x) ==
  IF sorted = <<>> THEN <<x>>
  ELSE IF CompareKeys(x, Head(sorted)) < 0 THEN <<x>> \o sorted
  ELSE <<Head(sorted)>> \o InsertSorted(Tail(sorted), x)

RECURSIVE SortFrom(_, _)
SortFrom(list, sorted) ==
  IF list = <<>> THEN sorted ELSE SortFrom(Tail(list), InsertSorted(sorted, Head(list)))

ListSort(list) == SortFrom(list, <<>>)

(***************************************************************************)
(* Construction of a parameter list                                        *)
(***************************************************************************)
\* The inputs of the constructor
InitUndefined == [tag |-> "undefined", str |-> <<>>, pairs |-> <<>>]
InitNull == [tag |-> "null", str |-> <<>>, pairs |-> <<>>]
InitString(s) == [tag |-> "string", str |-> s, pairs |-> <<>>]
InitIterable(ps) == [tag |-> "iterable", str |-> <<>>, pairs |-> ps]
InitObject(ps) == [tag |-> "object", str |-> <<>>, pairs |-> ps]

\* this.append(key, value) for each pair in turn, an invalid pair passed over
RECURSIVE AppendAll_SkipsInvalid(_, _)
AppendAll_SkipsInvalid(list, pairs) ==
  IF pairs = <<>> THEN [threw |-> FALSE, list |-> list]
  ELSE IF KeyThrows(Head(pairs)[1]) \/ ValueThrows(Head(pairs)[2])
       THEN AppendAll_SkipsInvalid(list, Tail(pairs))
       ELSE AppendAll_SkipsInvalid(ListAppend(list, NormalizeKey(Head(pairs)[1]), Head(pairs)[2]),
                                   Tail(pairs))

\* this.append(key, value) for each pair in turn; the first invalid pair throws
RECURSIVE AppendAll(_, _)
AppendAll(list, pairs) ==
  IF pairs = <<>> THEN [threw |-> FALSE, list |-> list]
  ELSE IF KeyThrows(Head(pairs)[1]) \/ ValueThrows(Head(pairs)[2])
       THEN [threw |-> TRUE, list |-> list]
       ELSE AppendAll(ListAppend(list, NormalizeKey(Head(pairs)[1]), Head(pairs)[2]),
                      Tail(pairs))

\* #append(match[1], ...) for each tuple scanned: no validation, no normalisation
RECURSIVE AppendAllRaw(_, _)
AppendAllRaw(list, pairs) ==
  IF pairs = <<>> THEN list
  ELSE AppendAllRaw(ListAppend(list, Head(pairs)[1], Head(pairs)[2]), Tail(pairs))

\* the string branch of #from appending to the list held before, as would a
\* list shared between the instances
StandaloneFromString_SharedList(r) ==
  [threw |-> r.threw, list |-> AppendAllRaw(parameters, r.pairs), lastIndex |-> r.lastIndex]

\* The standalone class, string branch of #from: the tuples scanned are
\* appended as they are
StandaloneFromString(r) ==
  [threw |-> r.threw, list |-> AppendAllRaw(<<>>, r.pairs), lastIndex |-> r.lastIndex]

WithLastIndex(r, li) == [threw |-> r.threw, list |-> r.list, lastIndex |-> li]

\* The standalone class: constructor and #from with mode 'append'
StandaloneConstruct(init, li) ==
  CASE init.tag = "undefined" -> [threw |-> FALSE, list |-> <<>>, lastIndex |-> li]
    [] init.tag = "string" ->
         IF init.str = <<>> THEN [threw |-> FALSE, list |-> <<>>, lastIndex |-> li]
         ELSE StandaloneFromString(ParseString(init.str))
    [] init.tag \in {"iterable", "object"} -> WithLastIndex(AppendAll(<<>>, init.pairs), li)
    [] OTHER -> [threw |-> TRUE, list |-> <<>>, lastIndex |-> li]

\* The constructor of the class mappedListFactory returns, called by super(init)
MappedListConstruct(init) ==
  CASE init.tag = "undefined" -> [threw |-> FALSE, list |-> <<>>]
    [] init.tag \in {"iterable", "object"} -> AppendAll(<<>>, init.pairs)
    [] OTHER -> [threw |-> TRUE, list |-> <<>>]

\* The mapped class, string branch: the index check throws before super(init)
\* is given the array of the tuples scanned
MappedFromString(r) ==
  IF r.threw THEN [threw |-> TRUE, list |-> <<>>, lastIndex |-> r.lastIndex]
  ELSE WithLastIndex(MappedListConstruct(InitIterable(r.pairs)), r.lastIndex)

\* The mapped class: the constructor turns a string into an array of tuples
\* (the empty string into the empty array) and hands it to super(init)
MappedConstruct(init, li) ==
  IF init.tag = "string"
  THEN IF init.str = <<>> THEN [threw |-> FALSE, list |-> <<>>, lastIndex |-> li]
       ELSE MappedFromString(ParseString(init.str))
  ELSE WithLastIndex(MappedListConstruct(init), li)

\* new MIMETypeParameters(init), with the lastIndex the expression holds before
ConstructParameters(v, init, li) ==
  IF v = "standalone" THEN StandaloneConstruct(init, li) ELSE MappedConstruct(init, li)

(***************************************************************************)
(* Serialisation of a parameter list                                       *)
(***************************************************************************)
\* EscapedValue with the two replaceAll calls in the other order: the
\* backslashes that escape the quotes are escaped again
EscapedValue_QuotesFirst(value) ==
  IF value = <<>> \/ RequiresQuoting(value)
  THEN <<DQ>> \o EscapeAll(EscapeAll(value, DQ), BS) \o <<DQ>>
  ELSE value

\* value === '' || RequiringQuoting.test(value) ? `"${...}"` : value
EscapedValue(value) ==
  IF value = <<>> \/ RequiresQuoting(value)
  THEN <<DQ>> \o EscapeAll(EscapeAll(value, BS), DQ) \o <<DQ>>
  ELSE value

\* The loop of toString over entries(), from offset i with the output so far
RECURSIVE ToStringFrom(_, _, _, _)
ToStringFrom(list, i, output, includeLeadingSeparator) ==
  IF i >= Len(list) THEN output
  ELSE ToStringFrom(list, i + 1,
         (IF output # <<>> \/ includeLeadingSeparator
          THEN output \o <<";", SP>> ELSE output)
           \o At(list, i)[1] \o <<"=">> \o EscapedValue(At(list, i)[2]),
         includeLeadingSeparator)

\* IncludeLeadingSeparator with the default the comment of the options
\* interface gives: true
IncludeLeadingSeparator_DefaultTrue(option) ==
  IF option = "undefined" THEN TRUE ELSE option = "true"

\* The default of the destructured option: includeLeadingSeparator = false
IncludeLeadingSeparator(option) == IF option = "undefined" THEN FALSE ELSE option = "true"

\* MIMETypeParameters.toString({ includeLeadingSeparator })
ParametersToString(list, option) ==
  ToStringFrom(list, 0, <<>>, IncludeLeadingSeparator(option))

(***************************************************************************)
(* MIMEType                                                                *)
(***************************************************************************)
\* set typeAndSubtype, after throwIfImmutable: the split at offset index
SplitTypeAndSubtype(input, index) ==
  IF index = -1 THEN [threw |-> TRUE, type |-> <<>>, subtype |-> <<>>]
  ELSE IF ~IsToken(Slice(input, 0, index)) \/ ~IsToken(Slice(input, index + 1, Len(input)))
       THEN [threw |-> TRUE, type |-> <<>>, subtype |-> <<>>]
       ELSE [threw |-> FALSE, type |-> Slice(input, 0, index),
             subtype |-> Slice(input, index + 1, Len(input))]

ParseTypeAndSubtype(input) == SplitTypeAndSubtype(input, IndexOf(input, "/"))

\* The constructor after the split at the first ';': typeAndSubtype is
\* assigned, then the parameters are built from the tail
ConstructFromParts(v, ts, tail, li) ==
  IF ts.threw
  THEN [threw |-> TRUE, type |-> <<>>, subtype |-> <<>>, list |-> <<>>, lastIndex |-> li]
  ELSE [type |-> ts.type, subtype |-> ts.subtype] @@ ConstructParameters(v, InitString(tail), li)

\* The split that gives the parameter list the text after the first ';'
SplitInput_TailAfterSeparator(v, input, indexOfParameters, li) ==
  IF indexOfParameters = -1
  THEN ConstructFromParts(v, ParseTypeAndSubtype(input), <<>>, li)
  ELSE ConstructFromParts(v, ParseTypeAndSubtype(Slice(input, 0, indexOfParameters)),
                          Slice(input, indexOfParameters + 1, Len(input)), li)

SplitInput(v, input, indexOfParameters, li) ==
  IF indexOfParameters = -1
  THEN ConstructFromParts(v, ParseTypeAndSubtype(input), <<>>, li)
  ELSE ConstructFromParts(v, ParseTypeAndSubtype(Slice(input, 0, indexOfParameters)),
                          Slice(input, indexOfParameters, Len(input)), li)

\* new MIMEType(input)
ConstructMIMEType(v, input, li) == SplitInput(v, input, IndexOf(input, ";"), li)

\* MIMEType.toString() that leaves includeLeadingSeparator to its default
MIMETypeToString_DefaultOption(t, st, list) ==
  t \o <<"/">> \o st \o ParametersToString(list, "undefined")

\* MIMEType.toString()
MIMETypeToString(t, st, list) == t \o <<"/">> \o st \o ParametersToString(list, "true")

(***************************************************************************)
(* Inputs                                                                  *)
(***************************************************************************)
\* keys given to the list operations: tokens in both cases, and a non-token
KeyArgs == {<<"a">>, <<"A">>, <<"b">>, <<"/">>}

\* values given to the list operations: restricted text (empty, a token, a
\* value with a backslash and a quote) and a value with U+000A
ValueArgs == {<<>>, <<"a">>, <<BS, DQ>>, <<LF>>}

\* strings given to the constructor of the parameter list
StringInits ==
  { <<>>,
    <<"a", "=", "b">>,
    <<";", SP, "a", "=", "b", ";", SP, "a", "=", "a", ";", "b", "=", "a">>,
    <<";", "A", "=", DQ, "a", BS, DQ, "b", DQ>>,
    <<"a", "=", DQ, LF, DQ>>,
    <<"a">>,
    <<"/", "=", "b">> }

\* iterables and key/value objects given to the constructor
PairInits ==
  { <<>>,
    << <<<<"a">>, <<"b">>>>, <<<<"A">>, <<>>>> >>,
    << <<<<"b">>, <<"a">>>>, <<<<"a">>, <<"a">>>>, <<<<"b">>, <<"b">>>> >>,
    << <<<<"/">>, <<"b">>>> >>,
    << <<<<"a">>, <<LF>>>> >> }

ParametersInits ==
  {InitUndefined, InitNull}
    \cup {InitString(s) : s \in StringInits}
    \cup {InitIterable(ps) : ps \in PairInits}
    \cup {InitObject(ps) : ps \in {qs \in PairInits :
                                     \A i, j \in 1..Len(qs) : qs[i][1] = qs[j][1] => i = j}}

\* strings given to the constructor of MIMEType
MIMETypeInputs ==
  { <<"a", "/", "b">>,
    <<"a", "/", "b", ";", SP, "a", "=", "b">>,
    <<"A", "/", "b", ";", "A", "=", DQ, "a", SP, "b", DQ, ";", SP, "b", "=", "a">>,
    <<"a">>,
    <<"a", "/", "b", ";", SP, "a">>,
    <<"/", "b">> }

\* strings assigned to type and to subtype
TypeArgs == {<<"a">>, <<"b">>, <<>>, <<"/", "a">>}

\* strings assigned to typeAndSubtype
TypeAndSubtypeArgs == {<<"a", "/", "b">>, <<"b", "/", "a">>, <<"a">>, <<"/", "a">>, <<"a", "/">>}

\* the includeLeadingSeparator option: absent, true, false
OptionArgs == {"undefined", "true", "false"}

\* what one step of writing adds to the input string: a character, an
\* escaped backslash, or the start of a parameter
Pieces == {<<c>> : c \in Chars \ {"b"}} \cup {<<BS, BS>>, <<"a", "=">>, <<"a", "=", DQ>>}

\* what the written string is appended to, to make the input of new MIMEType
HeadInputs == {<<>>, <<"a", "/", "b">>}

(***************************************************************************)
(* State                                                                   *)
(***************************************************************************)
Ret(op, arg, threw, value) == [op |-> op, arg |-> arg, threw |-> threw, value |-> value]

Init ==
  /\ variant \in {"standalone", "mapped"}
  /\ kind = "none"
  /\ type = <<>>
  /\ subtype = <<>>
  /\ immutable = FALSE
  /\ parameters = <<>>
  /\ pImmutable = FALSE
  /\ lastIndex = 0
  /\ ret = Ret("none", <<>>, FALSE, <<>>)
  /\ buffer = <<>>

\* WithImmutability.throwIfImmutable(): throws when the flag is set
ThrowIfImmutable(flag) == flag

\* WithImmutability.makeImmutable(): the flag it leaves, whatever it was
MadeImmutable(flag) == TRUE

\* The mutating operations of the mapped class throw when its flag is set;
\* the standalone class has no immutable flag
ListLocked == variant = "mapped" /\ ThrowIfImmutable(pImmutable)

(***************************************************************************)
(* Constructors                                                            *)
(***************************************************************************)
\* new MIMETypeParameters(init): a new entity, or an exception and the entity
\* held stays
Constructed(op, arg, k, r) ==
  /\ lastIndex' = r.lastIndex
  /\ ret' = Ret(op, arg, r.threw, <<>>)
  /\ IF r.threw
     THEN UNCHANGED <<kind, type, subtype, immutable, parameters, pImmutable>>
     ELSE /\ kind' = k
          /\ type' = r.type
          /\ subtype' = r.subtype
          /\ immutable' = FALSE
          /\ parameters' = r.list
          /\ pImmutable' = FALSE
  /\ UNCHANGED <<variant, buffer>>

NewParameters(init) ==
  Constructed("new MIMETypeParameters", init, "MIMETypeParameters",
              [type |-> <<>>, subtype |-> <<>>] @@ ConstructParameters(variant, init, lastIndex))

\* new MIMEType(input)
NewMIMEType(input) ==
  Constructed("new MIMEType", input, "MIMEType", ConstructMIMEType(variant, input, lastIndex))

(***************************************************************************)
(* Static methods                                                          *)
(***************************************************************************)
\* What parse returns when the constructor returns
Instance == <<"instance">>

\* parse(input): try { return new C(input) } catch { return null }; the
\* instance returned is the entity held from then on
Parsed(op, arg, k, r) ==
  /\ lastIndex' = r.lastIndex
  /\ ret' = Ret(op, arg, FALSE, IF r.threw THEN Null ELSE Instance)
  /\ IF r.threw
     THEN UNCHANGED <<kind, type, subtype, immutable, parameters, pImmutable>>
     ELSE /\ kind' = k
          /\ type' = r.type
          /\ subtype' = r.subtype
          /\ immutable' = FALSE
          /\ parameters' = r.list
          /\ pImmutable' = FALSE
  /\ UNCHANGED <<variant, buffer>>

\* parse(input) === null, as canParse would have it if it tested for null
CanParsed_IsNull(op, arg, r) ==
  /\ lastIndex' = r.lastIndex
  /\ ret' = Ret(op, arg, FALSE, r.threw)
  /\ UNCHANGED <<variant, kind, type, subtype, immutable, parameters, pImmutable, buffer>>

\* canParse(input): this.parse(input) !== null; the instance is dropped
CanParsed(op, arg, r) ==
  /\ lastIndex' = r.lastIndex
  /\ ret' = Ret(op, arg, FALSE, ~r.threw)
  /\ UNCHANGED <<variant, kind, type, subtype, immutable, parameters, pImmutable, buffer>>

\* MIMETypeParameters.parse(input)
ParseParameters(input) ==
  Parsed("MIMETypeParameters.parse", input, "MIMETypeParameters",
         [type |-> <<>>, subtype |-> <<>>]
           @@ ConstructParameters(variant, InitString(input), lastIndex))

\* MIMETypeParameters.canParse(input)
CanParseParameters(input) ==
  CanParsed("MIMETypeParameters.canParse", input,
            ConstructParameters(variant, InitString(input), lastIndex))

\* MIMEType.parse(input)
ParseMIMEType(input) ==
  Parsed("MIMEType.parse", input, "MIMEType", ConstructMIMEType(variant, input, lastIndex))

\* MIMEType.canParse(input)
CanParseMIMEType(input) ==
  CanParsed("MIMEType.canParse", input, ConstructMIMEType(variant, input, lastIndex))

\* The object held before the call: what of returns for an instance, and
\* how an instance is written as the argument of MIMEType.of
Held == <<"held">>

\* An instance of MIMETypeParameters as the argument of MIMETypeParameters.of
InitInstance == [tag |-> "instance", str |-> <<>>, pairs |-> <<>>]

\* of(input), input instanceof C: input itself is returned
OfInstance(op, arg) ==
  /\ ret' = Ret(op, arg, FALSE, Held)
  /\ UNCHANGED <<variant, kind, type, subtype, immutable, parameters, pImmutable, lastIndex, buffer>>

\* of(input), otherwise: new C(input) is returned, or its exception thrown
OfOther(op, arg, k, r) ==
  /\ lastIndex' = r.lastIndex
  /\ ret' = Ret(op, arg, r.threw, IF r.threw THEN Undefined ELSE Instance)
  /\ IF r.threw
     THEN UNCHANGED <<kind, type, subtype, immutable, parameters, pImmutable>>
     ELSE /\ kind' = k
          /\ type' = r.type
          /\ subtype' = r.subtype
          /\ immutable' = FALSE
          /\ parameters' = r.list
          /\ pImmutable' = FALSE
  /\ UNCHANGED <<variant, buffer>>

\* MIMEType.of(input) that gives every input to the constructor, which
\* throws on an input without indexOf
OfMIMEType_AlwaysNew(input) ==
  IF input = Held
  THEN /\ kind = "MIMEType"
       /\ ret' = Ret("MIMEType.of", input, TRUE, Undefined)
       /\ UNCHANGED <<variant, kind, type, subtype, immutable, parameters, pImmutable, lastIndex, buffer>>
  ELSE OfOther("MIMEType.of", input, "MIMEType", ConstructMIMEType(variant, input, lastIndex))

\* MIMEType.of(input)
OfMIMEType(input) ==
  IF input = Held
  THEN kind = "MIMEType" /\ OfInstance("MIMEType.of", input)
  ELSE OfOther("MIMEType.of", input, "MIMEType", ConstructMIMEType(variant, input, lastIndex))

\* MIMETypeParameters.of(input), of the class built on mappedListFactory;
\* the instance given is the list held or the parameters of the MIMEType held
OfParameters(init) ==
  /\ variant = "mapped"
  /\ IF init = InitInstance
     THEN kind # "none" /\ OfInstance("MIMETypeParameters.of", init)
     ELSE OfOther("MIMETypeParameters.of", init, "MIMETypeParameters",
                  [type |-> <<>>, subtype |-> <<>>]
                    @@ ConstructParameters(variant, init, lastIndex))

(***************************************************************************)
(* Operations of the parameter list (of a MIMEType: of its parameters)     *)
(***************************************************************************)
ListFrame == UNCHANGED <<variant, kind, type, subtype, immutable, pImmutable, lastIndex, buffer>>

\* append(key, value)
AppendParam(key, value) ==
  /\ kind # "none"
  /\ LET threw == ListLocked \/ KeyThrows(key) \/ ValueThrows(value)
     IN /\ threw \/ Len(parameters) < MaxSize
        /\ parameters' = IF threw THEN parameters
                         ELSE ListAppend(parameters, NormalizeKey(key), value)
        /\ ret' = Ret("append", <<key, value>>, threw, <<>>)
  /\ ListFrame

\* set(key, value) that validates the value after #delete(key)
SetParam_DeletesFirst(key, value) ==
  /\ kind # "none"
  /\ LET threw == ListLocked \/ KeyThrows(key) \/ ValueThrows(value)
     IN /\ threw \/ Len(ListSet(parameters, NormalizeKey(key), value)) <= MaxSize
        /\ parameters' = IF ListLocked \/ KeyThrows(key) THEN parameters
                         ELSE IF ValueThrows(value)
                              THEN ListDelete(parameters, NormalizeKey(key), Undefined)
                              ELSE ListSet(parameters, NormalizeKey(key), value)
        /\ ret' = Ret("set", <<key, value>>, threw, <<>>)
  /\ ListFrame

\* set(key, value)
SetParam(key, value) ==
  /\ kind # "none"
  /\ LET threw == ListLocked \/ KeyThrows(key) \/ ValueThrows(value)
     IN /\ threw \/ Len(ListSet(parameters, NormalizeKey(key), value)) <= MaxSize
        /\ parameters' = IF threw THEN parameters
                         ELSE ListSet(parameters, NormalizeKey(key), value)
        /\ ret' = Ret("set", <<key, value>>, threw, <<>>)
  /\ ListFrame

\* a number as a returned value
Number(n) == <<"number", n>>

\* delete(key, value?): the mapped class returns the number of tuples removed
DeleteParam(key, value) ==
  /\ kind # "none"
  /\ LET threw == ListLocked \/ KeyThrows(key) \/ ValueThrows(value)
         after == ListDelete(parameters, NormalizeKey(key), value)
     IN /\ parameters' = IF threw THEN parameters ELSE after
        /\ ret' = Ret("delete", <<key, value>>, threw,
                      IF threw \/ variant = "standalone" THEN Undefined
                      ELSE Number(Len(parameters) - Len(after)))
  /\ ListFrame

\* clear()
ClearParams ==
  /\ kind # "none"
  /\ parameters' = IF ListLocked THEN parameters ELSE <<>>
  /\ ret' = Ret("clear", <<>>, ListLocked, <<>>)
  /\ ListFrame

\* sort()
SortParams ==
  /\ kind # "none"
  /\ parameters' = IF ListLocked THEN parameters ELSE ListSort(parameters)
  /\ ret' = Ret("sort", <<>>, ListLocked, <<>>)
  /\ ListFrame

\* get(key) that throws for an invalid key only
GetThrows_InvalidKeyOnly(v, list, key) == KeyThrows(key)

\* get(key): the mapped class throws when no tuple is stored under key, the
\* standalone class returns null
GetThrows(v, list, key) ==
  KeyThrows(key) \/ (v = "mapped" /\ ~ListHas(list, NormalizeKey(key), Undefined))

GetParam(key) ==
  /\ kind # "none"
  /\ ret' = Ret("get", key, GetThrows(variant, parameters, key),
                IF GetThrows(variant, parameters, key) THEN Undefined
                ELSE ListGet(parameters, NormalizeKey(key)))
  /\ UNCHANGED parameters
  /\ ListFrame

\* getAll(key)
GetAllParams(key) ==
  /\ kind # "none"
  /\ ret' = Ret("getAll", key, KeyThrows(key),
                IF KeyThrows(key) THEN <<>> ELSE ListGetAll(parameters, NormalizeKey(key)))
  /\ UNCHANGED parameters
  /\ ListFrame

\* has(key, value?)
HasParam(key, value) ==
  /\ kind # "none"
  /\ LET threw == KeyThrows(key) \/ ValueThrows(value)
     IN ret' = Ret("has", <<key, value>>, threw,
                   IF threw THEN FALSE ELSE ListHas(parameters, NormalizeKey(key), value))
  /\ UNCHANGED parameters
  /\ ListFrame

\* size
SizeOfParams ==
  /\ kind # "none"
  /\ ret' = Ret("size", <<>>, FALSE, <<Len(parameters)>>)
  /\ UNCHANGED parameters
  /\ ListFrame

\* *keys(), *values(): the for loop that yields field col of each tuple
RECURSIVE YieldFields(_, _, _)
YieldFields(list, i, col) ==
  IF i < Len(list) THEN <<At(list, i)[col]>> \o YieldFields(list, i + 1, col) ELSE <<>>

\* *entries(): the for loop that yields each tuple
RECURSIVE YieldTuples(_, _)
YieldTuples(list, i) ==
  IF i < Len(list) THEN <<At(list, i)>> \o YieldTuples(list, i + 1) ELSE <<>>

\* keys(), run to its end
KeysOfParams ==
  /\ kind # "none"
  /\ ret' = Ret("keys", <<>>, FALSE, YieldFields(parameters, 0, 1))
  /\ UNCHANGED parameters
  /\ ListFrame

\* values(), run to its end
ValuesOfParams ==
  /\ kind # "none"
  /\ ret' = Ret("values", <<>>, FALSE, YieldFields(parameters, 0, 2))
  /\ UNCHANGED parameters
  /\ ListFrame

\* entries(), run to its end
EntriesOfParams ==
  /\ kind # "none"
  /\ ret' = Ret("entries", <<>>, FALSE, YieldTuples(parameters, 0))
  /\ UNCHANGED parameters
  /\ ListFrame

\* [Symbol.iterator](): this.entries(), run to its end
IteratorOfParams ==
  /\ kind # "none"
  /\ ret' = Ret("[Symbol.iterator]", <<>>, FALSE, YieldTuples(parameters, 0))
  /\ UNCHANGED parameters
  /\ ListFrame

\* forEach: the arguments of each call of the callback, in the order of the
\* calls.  The self-contained class calls callback(tuple[0], tuple[1], this);
\* the class built on mappedListFactory is seen to call it with the value
\* and the key
RECURSIVE CallbackCalls(_, _, _)
CallbackCalls(v, list, i) ==
  IF i < Len(list)
  THEN <<IF v = "standalone" THEN <<At(list, i)[1], At(list, i)[2], Held>>
         ELSE <<At(list, i)[2], At(list, i)[1]>>>>
         \o CallbackCalls(v, list, i + 1)
  ELSE <<>>

\* forEach(callback), with a callback that records its arguments
ForEachParam ==
  /\ kind # "none"
  /\ ret' = Ret("forEach", <<>>, FALSE, CallbackCalls(variant, parameters, 0))
  /\ UNCHANGED parameters
  /\ ListFrame

\* toString({ includeLeadingSeparator })
ToStringParams(option) ==
  /\ kind # "none"
  /\ ret' = Ret("toString", option, FALSE, ParametersToString(parameters, option))
  /\ UNCHANGED parameters
  /\ ListFrame

\* makeImmutable() of the mapped class (inherited)
MakeImmutableParams ==
  /\ kind # "none"
  /\ variant = "mapped"
  /\ pImmutable' = MadeImmutable(pImmutable)
  /\ ret' = Ret("makeImmutable", <<>>, FALSE, <<>>)
  /\ UNCHANGED <<variant, kind, type, subtype, immutable, parameters, lastIndex, buffer>>

(***************************************************************************)
(* Operations of MIMEType                                                  *)
(***************************************************************************)
MIMEFrame == UNCHANGED <<variant, kind, immutable, parameters, pImmutable, lastIndex, buffer>>

\* set type(input) without the call of throwIfImmutable
SetType_Unlocked(input) ==
  /\ kind = "MIMEType"
  /\ LET threw == ~IsToken(input)
     IN /\ type' = IF threw THEN type ELSE input
        /\ ret' = Ret("set type", input, threw, <<>>)
  /\ UNCHANGED subtype
  /\ MIMEFrame

\* set type(input)
SetType(input) ==
  /\ kind = "MIMEType"
  /\ LET threw == ThrowIfImmutable(immutable) \/ ~IsToken(input)
     IN /\ type' = IF threw THEN type ELSE input
        /\ ret' = Ret("set type", input, threw, <<>>)
  /\ UNCHANGED subtype
  /\ MIMEFrame

\* set subtype(input) that assigns before it validates
SetSubtype_AssignsFirst(input) ==
  /\ kind = "MIMEType"
  /\ subtype' = IF ThrowIfImmutable(immutable) THEN subtype ELSE input
  /\ ret' = Ret("set subtype", input, ThrowIfImmutable(immutable) \/ ~IsToken(input), <<>>)
  /\ UNCHANGED type
  /\ MIMEFrame

\* set subtype(input)
SetSubtype(input) ==
  /\ kind = "MIMEType"
  /\ LET threw == ThrowIfImmutable(immutable) \/ ~IsToken(input)
     IN /\ subtype' = IF threw THEN subtype ELSE input
        /\ ret' = Ret("set subtype", input, threw, <<>>)
  /\ UNCHANGED type
  /\ MIMEFrame

\* set typeAndSubtype(input) that assigns the type before it validates the
\* subtype
SetTypeAndSubtype_OneByOne(input) ==
  /\ kind = "MIMEType"
  /\ LET r == ParseTypeAndSubtype(input)
         index == IndexOf(input, "/")
         typeSet == ~ThrowIfImmutable(immutable) /\ index # -1 /\ IsToken(Slice(input, 0, index))
         threw == ThrowIfImmutable(immutable) \/ r.threw
     IN /\ type' = IF typeSet THEN Slice(input, 0, index) ELSE type
        /\ subtype' = IF threw THEN subtype ELSE r.subtype
        /\ ret' = Ret("set typeAndSubtype", input, threw, <<>>)
  /\ MIMEFrame

\* set typeAndSubtype(input)
SetTypeAndSubtype(input) ==
  /\ kind = "MIMEType"
  /\ LET r == ParseTypeAndSubtype(input)
         threw == ThrowIfImmutable(immutable) \/ r.threw
     IN /\ type' = IF threw THEN type ELSE r.type
        /\ subtype' = IF threw THEN subtype ELSE r.subtype
        /\ ret' = Ret("set typeAndSubtype", input, threw, <<>>)
  /\ MIMEFrame

\* get typeAndSubtype
GetTypeAndSubtype ==
  /\ kind = "MIMEType"
  /\ ret' = Ret("get typeAndSubtype", <<>>, FALSE, type \o <<"/">> \o subtype)
  /\ UNCHANGED <<type, subtype>>
  /\ MIMEFrame

\* MIMEType.toString()
ToStringMIMEType ==
  /\ kind = "MIMEType"
  /\ ret' = Ret("MIMEType.toString", <<>>, FALSE, MIMETypeToString(type, subtype, parameters))
  /\ UNCHANGED <<type, subtype>>
  /\ MIMEFrame

\* MIMEType.makeImmutable() that throws on a MIME type already immutable
MakeImmutableMIMEType_Once ==
  /\ kind = "MIMEType"
  /\ immutable' = MadeImmutable(immutable)
  /\ ret' = Ret("MIMEType.makeImmutable", <<>>, ThrowIfImmutable(immutable), <<>>)
  /\ UNCHANGED <<variant, kind, type, subtype, parameters, pImmutable, lastIndex, buffer>>

\* MIMEType.makeImmutable(): inherited from WithImmutability, not overridden;
\* the class does nothing to #parameters
MakeImmutableMIMEType ==
  /\ kind = "MIMEType"
  /\ immutable' = MadeImmutable(immutable)
  /\ ret' = Ret("MIMEType.makeImmutable", <<>>, FALSE, <<>>)
  /\ UNCHANGED <<variant, kind, type, subtype, parameters, pImmutable, lastIndex, buffer>>

(***************************************************************************)
(* Specifications                                                          *)
(***************************************************************************)
\* The parameter list on its own
Next ==
  \/ \E init \in ParametersInits : NewParameters(init)
  \/ \E key \in KeyArgs, value \in ValueArgs : AppendParam(key, value)
  \/ \E key \in KeyArgs, value \in ValueArgs : SetParam(key, value)
  \/ \E key \in KeyArgs, value \in ValueArgs \cup {Undefined} : DeleteParam(key, value)
  \/ ClearParams
  \/ SortParams
  \/ \E key \in KeyArgs : GetParam(key)
  \/ \E key \in KeyArgs : GetAllParams(key)
  \/ \E key \in KeyArgs, value \in ValueArgs \cup {Undefined} : HasParam(key, value)
  \/ SizeOfParams
  \/ \E option \in OptionArgs : ToStringParams(option)
  \/ MakeImmutableParams
  \/ KeysOfParams
  \/ ValuesOfParams
  \/ EntriesOfParams
  \/ IteratorOfParams
  \/ ForEachParam

Spec == Init /\ [][Next]_vars

\* A MIMEType and its parameters, and a parameter list on its own, with
\* fewer arguments for the list operations
MIMEKeyArgs == {<<"a">>, <<"/">>}
MIMEValueArgs == {<<"a">>, <<LF>>}
MIMEParametersInits == {InitUndefined, InitString(<<"a", "=", "b">>)}

NextMIME ==
  \/ \E input \in MIMETypeInputs : NewMIMEType(input)
  \/ \E init \in MIMEParametersInits : NewParameters(init)
  \/ \E input \in TypeArgs : SetType(input)
  \/ \E input \in TypeArgs : SetSubtype(input)
  \/ \E input \in TypeAndSubtypeArgs : SetTypeAndSubtype(input)
  \/ GetTypeAndSubtype
  \/ ToStringMIMEType
  \/ MakeImmutableMIMEType
  \/ MakeImmutableParams
  \/ \E key \in MIMEKeyArgs, value \in MIMEValueArgs : AppendParam(key, value)
  \/ \E key \in MIMEKeyArgs, value \in MIMEValueArgs : SetParam(key, value)
  \/ \E key \in MIMEKeyArgs, value \in MIMEValueArgs \cup {Undefined} : DeleteParam(key, value)
  \/ ClearParams
  \/ SortParams
  \/ \E key \in MIMEKeyArgs : GetParam(key)
  \/ \E key \in MIMEKeyArgs : GetAllParams(key)
  \/ \E key \in MIMEKeyArgs, value \in MIMEValueArgs \cup {Undefined} : HasParam(key, value)
  \/ SizeOfParams
  \/ \E option \in OptionArgs : ToStringParams(option)
  \/ \E input \in MIMETypeInputs \cup {Held} : OfMIMEType(input)
  \/ \E init \in MIMEParametersInits \cup {InitInstance} : OfParameters(init)

SpecMIME == Init /\ [][NextMIME]_vars

\* Writing an input string piece by piece, then giving it to a constructor
Write(piece) ==
  /\ kind = "none"
  /\ ret.op = "none"
  /\ Len(buffer) < MaxPieces
  /\ buffer' = Append(buffer, piece)
  /\ UNCHANGED <<variant, kind, type, subtype, immutable, parameters, pImmutable, lastIndex, ret>>

\* The string written: the pieces joined
RECURSIVE Join(_)
Join(pieces) == IF pieces = <<>> THEN <<>> ELSE Head(pieces) \o Join(Tail(pieces))

ParseNext ==
  \/ \E piece \in Pieces : Write(piece)
  \/ ret.op = "none" /\ NewParameters(InitString(Join(buffer)))
  \/ \E head \in HeadInputs : ret.op = "none" /\ NewMIMEType(head \o Join(buffer))
  \/ ret.op = "none" /\ ParseParameters(Join(buffer))
  \/ ret.op = "none" /\ CanParseParameters(Join(buffer))
  \/ \E head \in HeadInputs : ret.op = "none" /\ ParseMIMEType(head \o Join(buffer))
  \/ \E head \in HeadInputs : ret.op = "none" /\ CanParseMIMEType(head \o Join(buffer))

SpecParse == Init /\ [][ParseNext]_vars

(***************************************************************************)
(* Properties                                                              *)
(***************************************************************************)
\* Whether s, from offset i on, is parameters of the grammar back to back:
\* a match starts at i and the rest starts where that match ends
RECURSIVE C1_ConcatenationFrom(_, _)
C1_ConcatenationStep(s, match) == match.found /\ C1_ConcatenationFrom(s, match.end)

C1_ConcatenationFrom(s, i) ==
  IF i >= Len(s) THEN TRUE ELSE C1_ConcatenationStep(s, MatchAt(s, i))

\* The tail new MIMEType(input) gives to the parameter list
C1_ParameterTail(input) ==
  IF IndexOf(input, ";") = -1 THEN <<>> ELSE Slice(input, IndexOf(input, ";"), Len(input))

\* C1: a parameter list is built from a non-empty string (given directly, or
\* as the parameter tail of a MIME type) only if the whole input, with a
\* leading ';' inserted when absent, is parameters of the grammar back to
\* back: a character outside every match makes the construction throw.
C1_WholeInputMatched ==
  /\ (ret.op = "new MIMETypeParameters" /\ ~ret.threw /\ ret.arg.str # <<>>)
       => C1_ConcatenationFrom(WithLeadingSeparator(ret.arg.str), 0)
  /\ (ret.op = "new MIMEType" /\ ~ret.threw /\ C1_ParameterTail(ret.arg) # <<>>)
       => C1_ConcatenationFrom(C1_ParameterTail(ret.arg), 0)

\* What new MIMEType(t) gives, against the MIME type held
C2_SameAs(t, r) ==
  /\ ~r.threw
  /\ r.type = type
  /\ r.subtype = subtype
  /\ r.list = parameters
  /\ MIMETypeToString(r.type, r.subtype, r.list) = t

C2_Reparsed(t) == C2_SameAs(t, ConstructMIMEType(variant, t, 0))

\* C2: for every string s the MIMEType constructor accepts, the constructor
\* accepts t = new MIMEType(s).toString(), new MIMEType(t) has the type, the
\* subtype and the parameter tuples of new MIMEType(s) in the same order, and
\* new MIMEType(t).toString() is t.
C2_MIMETypeRoundTrip ==
  (ret.op = "new MIMEType" /\ ~ret.threw)
    => C2_Reparsed(MIMETypeToString(type, subtype, parameters))

C3_NoBackslash(list) ==
  \A i \in DOMAIN list : \A j \in DOMAIN list[i][2] : list[i][2][j] # BS

C3_SameTuples(r) == ~r.threw /\ r.list = parameters

\* C3: for every parameter list whose values hold no backslash, however it
\* was built, new MIMETypeParameters(list.toString(options)) succeeds and
\* holds the same tuples in the same order, with and without
\* includeLeadingSeparator.
C3_ParametersRoundTrip ==
  (kind = "MIMETypeParameters" /\ C3_NoBackslash(parameters))
    => \A option \in OptionArgs :
         C3_SameTuples(ConstructParameters(variant,
                         InitString(ParametersToString(parameters, option)), 0))

\* Whether a tuple of the list is stored under a case variant of key
C4_Stored(list, key) ==
  \E i \in DOMAIN list : ToLowerCase(list[i][1]) = ToLowerCase(key)

\* The values stored under the case variants of key, in list order
C4_ValuesOf(list, key) ==
  LET at == SelectSeq(list, LAMBDA t : ToLowerCase(t[1]) = ToLowerCase(key))
  IN [i \in DOMAIN at |-> at[i][2]]

\* C4: every key stored is the lowercase form of the key given, whichever way
\* the tuple entered the list, and has, getAll and get called with any case
\* variant of a key find the tuples stored under it.
C4_KeysLowercase ==
  /\ \A i \in DOMAIN parameters : parameters[i][1] = ToLowerCase(parameters[i][1])
  /\ (ret.op = "has" /\ ~ret.threw /\ ret.arg[2] = Undefined)
       => (ret.value <=> C4_Stored(parameters, ret.arg[1]))
  /\ (ret.op = "getAll" /\ ~ret.threw)
       => ret.value = C4_ValuesOf(parameters, ret.arg)
  /\ (ret.op = "get" /\ ~ret.threw /\ C4_Stored(parameters, ret.arg))
       => ret.value = C4_ValuesOf(parameters, ret.arg)[1]

\* C5: after any sequence of constructions and operations every tuple stored
\* has a key that is a non-empty string of token characters and a value whose
\* every character is TAB or in U+0020..U+007E, and size is the number of
\* tuples stored; a string whose quoted value holds a character outside that
\* range is rejected.
C5_TuplesValid ==
  /\ \A i \in DOMAIN parameters :
       IsToken(parameters[i][1]) /\ IsRestrictedText(parameters[i][2])
  /\ ret.op = "size" => ret.value = <<Len(parameters)>>

\* C6: after makeImmutable() on a MIMEType, the list its parameters getter
\* returns is immutable too: parameters.immutable is true, and append, set,
\* delete, clear and sort on it throw.
C6_ParametersLockedInConcert ==
  (kind = "MIMEType" /\ immutable) => (pImmutable /\ ListLocked)

C7_Setters == {"set type", "set subtype", "set typeAndSubtype"}
C7_ListMutators == {"append", "set", "delete", "clear", "sort"}
C7_Reads ==
  {"get typeAndSubtype", "MIMEType.toString", "get", "getAll", "has", "size", "toString"}

C7_Entity == <<kind, type, subtype, immutable, parameters, pImmutable>>

\* When a read-only operation called with r.arg may throw
C7_ReadMayThrow(r) ==
  CASE r.op = "get" -> GetThrows(variant, parameters, r.arg)
    [] r.op = "getAll" -> KeyThrows(r.arg)
    [] r.op = "has" -> KeyThrows(r.arg[1]) \/ ValueThrows(r.arg[2])
    [] OTHER -> FALSE

C7_Step ==
  /\ (kind = "MIMEType" /\ immutable /\ ret'.op \in C7_Setters)
       => (ret'.threw /\ C7_Entity' = C7_Entity)
  /\ (pImmutable /\ ret'.op \in C7_ListMutators)
       => (ret'.threw /\ C7_Entity' = C7_Entity)
  /\ ((immutable \/ pImmutable) /\ ret'.op \in C7_Reads)
       => (C7_Entity' = C7_Entity /\ (ret'.threw => C7_ReadMayThrow(ret')))

\* C7: once makeImmutable() has been called on an entity, every mutating
\* operation on it (the type, subtype and typeAndSubtype setters of a MIME
\* type; append, set, delete, clear and sort of a parameter list) throws and
\* leaves the state unchanged, valid arguments or not, and the read-only
\* operations leave the state unchanged and throw no more than they did.
C7_LockedEntityFrozen == [][C7_Step]_vars

\* An immutable MIME type with immutable parameters, whose typeAndSubtype
\* setter has just thrown on a valid argument
C7_Witness ==
  /\ kind = "MIMEType" /\ immutable /\ pImmutable
  /\ ret.op = "set typeAndSubtype" /\ ret.threw
  /\ ~ParseTypeAndSubtype(ret.arg).threw

C8_Built(r) ==
  \/ r.op \in {"new MIMEType", "new MIMETypeParameters"} /\ ~r.threw
  \/ /\ r.op \in {"MIMEType.of", "MIMETypeParameters.of",
                  "MIMEType.parse", "MIMETypeParameters.parse"}
     /\ r.value = Instance

C8_Step ==
  /\ C8_Built(ret') => (~immutable' /\ ~pImmutable')
  /\ ret'.op = "MIMEType.makeImmutable" => (immutable' /\ ~ret'.threw)
  /\ ret'.op = "makeImmutable" => (pImmutable' /\ ~ret'.threw)
  /\ ~C8_Built(ret') => ((immutable => immutable') /\ (pImmutable => pImmutable'))
  /\ (immutable /\ ret'.op = "MIMEType.makeImmutable") => C7_Entity' = C7_Entity
  /\ (pImmutable /\ ret'.op = "makeImmutable") => C7_Entity' = C7_Entity

\* C8: the immutable flag of a MIME type and of a parameter list is false
\* right after construction, is true after makeImmutable(), and is never
\* false again for that entity; makeImmutable() on an entity already
\* immutable does not throw and changes nothing.
C8_FlagSetOnce == [][C8_Step]_vars

\* A MIME type on which makeImmutable() has just been called, its parameters
\* immutable as well
C8_Witness ==
  kind = "MIMEType" /\ immutable /\ pImmutable /\ ret.op = "MIMEType.makeImmutable"

\* A value with a backslash put before every backslash and every quote
RECURSIVE C9_Escaped(_)
C9_Escaped(value) ==
  IF value = <<>> THEN <<>>
  ELSE (IF Head(value) \in {BS, DQ} THEN <<BS, Head(value)>> ELSE <<Head(value)>>)
         \o C9_Escaped(Tail(value))

\* bare when not empty and of token characters only, else between quotes
C9_Emitted(value) ==
  IF value # <<>> /\ \A i \in DOMAIN value : value[i] \in TokenChars
  THEN value
  ELSE <<DQ>> \o C9_Escaped(value) \o <<DQ>>

RECURSIVE C9_Output(_, _, _)
C9_Output(list, i, lead) ==
  IF i > Len(list) THEN <<>>
  ELSE (IF i > 1 \/ lead THEN <<";", SP>> ELSE <<>>)
         \o list[i][1] \o <<"=">> \o C9_Emitted(list[i][2]) \o C9_Output(list, i + 1, lead)

\* C9: toString() emits a value bare exactly when it is not empty and holds
\* token characters only; otherwise between double quotes, every backslash
\* and every double quote of the value preceded by one backslash and the
\* other characters unchanged.
C9_ValueEmission ==
  ret.op = "toString"
    => ret.value = C9_Output(parameters, 1, IncludeLeadingSeparator(ret.arg))

\* toString() has run on a list that holds a value with a backslash and a
\* quote, and a token value
C9_Witness ==
  /\ ret.op = "toString"
  /\ Len(parameters) = 2
  /\ parameters[1][2] = <<BS, DQ>>
  /\ parameters[2][2] = <<"a">>

C10_Item(tuple) == tuple[1] \o <<"=">> \o EscapedValue(tuple[2])

\* The items joined by "; "
RECURSIVE C10_Joined(_)
C10_Joined(list) ==
  IF Len(list) = 1 THEN C10_Item(list[1])
  ELSE C10_Item(Head(list)) \o <<";", SP>> \o C10_Joined(Tail(list))

C11_TypeSubtypeParameters ==
  ret.op = "MIMEType.toString"
    => ret.value = type \o <<"/">> \o subtype
                     \o (IF parameters = <<>> THEN <<>>
                         ELSE <<";", SP>> \o C10_Joined(parameters))

\* toString() has run on a MIME type whose type was set after construction
\* and whose parameters hold two tuples
C11_Witness ==
  ret.op = "MIMEType.toString" /\ type = <<"b">> /\ Len(parameters) = 2

\* The number of characters of s in front of its first c, Len(s) if it has none
RECURSIVE C12_Before(_, _)
C12_Before(s, c) ==
  IF s = <<>> \/ Head(s) = c THEN 0 ELSE 1 + C12_Before(Tail(s), c)

C12_Head(s) == SubSeq(s, 1, C12_Before(s, ";"))
C12_Tail(s) == SubSeq(s, C12_Before(s, ";") + 1, Len(s))
C12_Type(s) == SubSeq(C12_Head(s), 1, C12_Before(C12_Head(s), "/"))
C12_Subtype(s) == SubSeq(C12_Head(s), C12_Before(C12_Head(s), "/") + 2, Len(C12_Head(s)))
C12_TailParsed(s) == ConstructParameters(variant, InitString(C12_Tail(s)), 0)

C12_Accepted(s) ==
  /\ C12_Before(C12_Head(s), "/") < Len(C12_Head(s))
  /\ IsToken(C12_Type(s))
  /\ IsToken(C12_Subtype(s))
  /\ ~C12_TailParsed(s).threw

\* C12: new MIMEType(s) splits s at its first ';' into head and tail and the
\* head at its first '/'; it succeeds iff the head has a '/', the texts
\* before and after it are tokens, and the parameter-list constructor
\* accepts the tail (from the ';' on, or the empty string); type and subtype
\* are then those two texts and parameters the tuples parsed from the tail.
C12_ConstructorSplits ==
  ret.op = "new MIMEType"
    => /\ ret.threw <=> ~C12_Accepted(ret.arg)
       /\ ~ret.threw => /\ type = C12_Type(ret.arg)
                        /\ subtype = C12_Subtype(ret.arg)
                        /\ parameters = C12_TailParsed(ret.arg).list

\* new MIMEType has accepted a string with a parameter tail
C12_Witness ==
  ret.op = "new MIMEType" /\ ~ret.threw /\ Len(parameters) >= 1

\* A step of the type or subtype setter that replaces the value
C13_Replaces(r) ==
  /\ ~r.threw
  /\ type' = (IF r.op = "set type" THEN r.arg ELSE type)
  /\ subtype' = (IF r.op = "set subtype" THEN r.arg ELSE subtype)

\* A step of the type or subtype setter that throws and leaves the values
C13_Throws(r) == r.threw /\ type' = type /\ subtype' = subtype

C13_Tokens == kind' = "MIMEType" => (IsToken(type') /\ IsToken(subtype'))

C13_OriginalStep ==
  /\ C13_Tokens
  /\ ret'.op \in {"set type", "set subtype"}
       => IF IsToken(ret'.arg) THEN C13_Replaces(ret') ELSE C13_Throws(ret')

\* C13 as stated: in every state of a constructed MIMEType, type and subtype
\* are non-empty strings of token characters; the type and subtype setters
\* replace the value when given a token, and throw leaving the previous
\* value when given anything else, the empty string included.
C13_SettersReplaceTokens == [][C13_OriginalStep]_vars

C13_Step ==
  /\ C13_Tokens
  /\ ret'.op \in {"set type", "set subtype"}
       => IF IsToken(ret'.arg) /\ ~immutable
          THEN C13_Replaces(ret') ELSE C13_Throws(ret')

\* C13, amended: type and subtype are non-empty strings of token characters
\* in every state of a constructed MIMEType; on a MIME type that is not
\* immutable the setters replace the value when given a token; given
\* anything else, or on an immutable MIME type, they throw and leave the
\* previous value.
C13_SettersReplaceTokensUnlessLocked == [][C13_Step]_vars

\* The type setter has thrown on the empty string, on a MIME type that is
\* not immutable
C13_Witness ==
  kind = "MIMEType" /\ ~immutable /\ ret.op = "set type" /\ ret.threw /\ ret.arg = <<>>

C14_Type(s) == SubSeq(s, 1, C12_Before(s, "/"))
C14_Subtype(s) == SubSeq(s, C12_Before(s, "/") + 2, Len(s))

\* s has a '/', and the texts before and after its first '/' are tokens
C14_BothTokens(s) ==
  C12_Before(s, "/") < Len(s) /\ IsToken(C14_Type(s)) /\ IsToken(C14_Subtype(s))

C14_Getter ==
  ret'.op = "get typeAndSubtype"
    => /\ ~ret'.threw
       /\ ret'.value = type \o <<"/">> \o subtype
       /\ type' = type /\ subtype' = subtype

C14_Replaces(r) ==
  ~r.threw /\ type' = C14_Type(r.arg) /\ subtype' = C14_Subtype(r.arg)

C14_Throws(r) == r.threw /\ type' = type /\ subtype' = subtype

C14_OriginalStep ==
  /\ C14_Getter
  /\ ret'.op = "set typeAndSubtype"
       => IF C14_BothTokens(ret'.arg) THEN C14_Replaces(ret') ELSE C14_Throws(ret')

\* C14 as stated: the typeAndSubtype getter returns type + '/' + subtype;
\* assigning a string to typeAndSubtype splits it at its first '/' and
\* replaces both type and subtype when both parts are tokens, and otherwise
\* (no '/', or a part that is not a token) throws leaving both as they were.
C14_TypeAndSubtypeReplaced == [][C14_OriginalStep]_vars

C14_Step ==
  /\ C14_Getter
  /\ ret'.op = "set typeAndSubtype"
       => IF C14_BothTokens(ret'.arg) /\ ~immutable
          THEN C14_Replaces(ret') ELSE C14_Throws(ret')

\* C14, amended: the getter returns type + '/' + subtype; on a MIME type
\* that is not immutable the setter replaces both type and subtype when the
\* texts before and after the first '/' are tokens; with no '/', a part that
\* is not a token, or an immutable MIME type, it throws leaving both.
C14_TypeAndSubtypeReplacedUnlessLocked == [][C14_Step]_vars

\* The typeAndSubtype setter has thrown on 'a/': the type, set to 'b'
\* before, is kept
C14_Witness ==
  /\ kind = "MIMEType" /\ ~immutable
  /\ ret.op = "set typeAndSubtype" /\ ret.threw /\ ret.arg = <<"a", "/">>
  /\ type = <<"b">>

\* What the constructor of the class op belongs to gives on the string arg
C15_Constructed(op, arg) ==
  IF op \in {"MIMEType.parse", "MIMEType.canParse"}
  THEN ConstructMIMEType(variant, arg, 0)
  ELSE [type |-> <<>>, subtype |-> <<>>] @@ ConstructParameters(variant, InitString(arg), 0)

C15_Kind(op) == IF op = "MIMEType.parse" THEN "MIMEType" ELSE "MIMETypeParameters"

C15_Parse(r, c) ==
  /\ ~r.threw
  /\ r.value = Null <=> c.threw
  /\ ~c.threw => /\ r.value = Instance
                 /\ kind = C15_Kind(r.op)
                 /\ type = c.type /\ subtype = c.subtype /\ parameters = c.list
                 /\ ~immutable /\ ~pImmutable

C15_CanParse(r, c) == ~r.threw /\ (r.value <=> ~c.threw)

\* C15: for MIMEType and MIMETypeParameters and every string s, parse(s)
\* never throws, returns null exactly when the constructor throws on s and
\* otherwise an instance equal to the constructed one; canParse(s) is true
\* exactly when parse(s) is not null.
C15_ParseAgreesWithConstructor ==
  /\ ret.op \in {"MIMEType.parse", "MIMETypeParameters.parse"}
       => C15_Parse(ret, C15_Constructed(ret.op, ret.arg))
  /\ ret.op \in {"MIMEType.canParse", "MIMETypeParameters.canParse"}
       => C15_CanParse(ret, C15_Constructed(ret.op, ret.arg))

\* MIMEType.parse has returned null on a string that has a '/' and a ';'
C15_Witness ==
  /\ ret.op = "MIMEType.parse" /\ ret.value = Null
  /\ \E i \in DOMAIN ret.arg : ret.arg[i] = "/"
  /\ \E i \in DOMAIN ret.arg : ret.arg[i] = ";"

\* the object held: its class and its fields
C16_Object == <<kind, type, subtype, immutable, parameters, pImmutable>>

\* x is an instance of the class: the very same object, unmodified
C16_Same == ~ret'.threw /\ ret'.value = Held /\ UNCHANGED C16_Object

\* otherwise: what the constructor throws, or an object that is not the one
\* held before and has the fields the constructor gives it
C16_New(k, c) ==
  /\ ret'.threw <=> c.threw
  /\ c.threw => UNCHANGED C16_Object
  /\ ~c.threw => /\ ret'.value = Instance /\ ret'.value # Held
                 /\ C16_Object' = <<k, c.type, c.subtype, FALSE, c.list, FALSE>>

C16_Step ==
  /\ ret'.op = "MIMEType.of"
       => IF ret'.arg = Held THEN C16_Same
          ELSE C16_New("MIMEType", ConstructMIMEType(variant, ret'.arg, lastIndex))
  /\ ret'.op = "MIMETypeParameters.of"
       => IF ret'.arg = InitInstance THEN C16_Same
          ELSE C16_New("MIMETypeParameters",
                       [type |-> <<>>, subtype |-> <<>>]
                         @@ ConstructParameters(variant, ret'.arg, lastIndex))

\* C16: of(x) returns the very same object x, unmodified, when x is already
\* an instance of the class, and otherwise a newly constructed instance
\* distinct from every existing one, throwing when the constructor would
\* throw; for MIMEType.of and MIMETypeParameters.of.
C16_OfReturnsInstanceOrNew == [][C16_Step]_vars

\* MIMEType.of has returned the immutable MIMEType it was given, with its
\* parameter
C16_Witness ==
  /\ ret.op = "MIMEType.of" /\ ret.value = Held
  /\ immutable /\ Len(parameters) = 1

\* append with a token as key and restricted text as value, on a list that
\* takes changes: one tuple more, the last, and the others as they were
C17_Appends(key, value) ==
  (IsToken(key) /\ IsRestrictedText(value) /\ ~ListLocked)
    => /\ ~ret'.threw
       /\ Len(parameters') = Len(parameters) + 1
       /\ parameters'[Len(parameters')] = <<ToLowerCase(key), value>>
       /\ \A i \in 1..Len(parameters) : parameters'[i] = parameters[i]

\* size is the number of tuples, and the iterators yield the keys, the
\* values and the pairs of the tuples from the first to the last
C17_Yields ==
  /\ ret'.op = "size" => ret'.value = <<Len(parameters)>>
  /\ ret'.op = "keys" => ret'.value = [i \in 1..Len(parameters) |-> parameters[i][1]]
  /\ ret'.op = "values" => ret'.value = [i \in 1..Len(parameters) |-> parameters[i][2]]
  /\ ret'.op \in {"entries", "[Symbol.iterator]"} => ret'.value = parameters
  /\ ret'.op \in {"size", "keys", "values", "entries", "[Symbol.iterator]"}
       => ~ret'.threw /\ parameters' = parameters

C17_Step ==
  /\ ret'.op = "append" => C17_Appends(ret'.arg[1], ret'.arg[2])
  /\ C17_Yields

\* C17: append(k, v) with valid arguments adds exactly one tuple
\* (lowercase k, v) at the end of the list and changes no other tuple, also
\* when the key or the whole tuple is already there; size is the number of
\* tuples and keys(), values(), entries() and [Symbol.iterator]() yield the
\* keys, values and pairs in list order, so after N appends on an empty list
\* they yield the N keys, values and pairs in the order of the appends.
C17_AppendAddsLast == [][C17_Step]_vars

\* entries() has yielded two equal tuples with a lowercase key
C17_Witness ==
  /\ ret.op = "entries"
  /\ ret.value = << <<<<"a">>, <<"a">>>>, <<<<"a">>, <<"a">>>> >>

\* the tuples of list with a key other than key, in list order
C18_Others(list, key) == SelectSeq(list, LAMBDA tuple : tuple[1] # key)

\* the places of list that hold key
C18_Places(list, key) == {i \in 1..Len(list) : list[i][1] = key}

\* set, with the key as the list stores it (lowercase)
C18_Sets(key, value) ==
  /\ ~ret'.threw
  /\ Cardinality(C18_Places(parameters', key)) = 1
  /\ parameters'[Len(parameters')] = <<key, value>>
  /\ C18_Others(parameters', key) = C18_Others(parameters, key)

C18_Step ==
  (/\ ret'.op = "set"
   /\ IsToken(ret'.arg[1]) /\ IsRestrictedText(ret'.arg[2])
   /\ ~ListLocked)
    => C18_Sets(ToLowerCase(ret'.arg[1]), ret'.arg[2])

\* C18: after set(k, v) with valid arguments the list holds exactly one tuple
\* with key k (as stored: in lowercase), its value is v and it is the last
\* tuple of the list; the tuples with other keys are all still there, in
\* their previous relative order.
C18_SetLeavesOneLast == [][C18_Step]_vars

\* set with an uppercase key has put its tuple after a tuple with another key
C18_Witness ==
  /\ ret.op = "set" /\ ~ret.threw /\ ret.arg[1] = <<"A">>
  /\ Len(parameters) = 2
  /\ parameters[1][1] = <<"b">>
  /\ parameters[2] = <<<<"a">>, ret.arg[2]>>

\* the tuple is one delete(key, value) is to remove
C19_Matches(tuple, key, value) ==
  tuple[1] = key /\ (value = Undefined \/ tuple[2] = value)

\* how many tuples of list delete(key, value) is to remove
C19_Count(list, key, value) ==
  Cardinality({i \in 1..Len(list) : C19_Matches(list[i], key, value)})

\* delete, with the key as the list stores it (lowercase)
C19_Deletes(key, value) ==
  /\ ~ret'.threw
  /\ parameters' = SelectSeq(parameters, LAMBDA tuple : ~C19_Matches(tuple, key, value))
  /\ Len(parameters') = Len(parameters) - C19_Count(parameters, key, value)
  /\ ret'.value = Number(C19_Count(parameters, key, value))

C19_Step ==
  (/\ ret'.op = "delete"
   /\ IsToken(ret'.arg[1])
   /\ ret'.arg[2] = Undefined \/ IsRestrictedText(ret'.arg[2])
   /\ ~ListLocked)
    => C19_Deletes(ToLowerCase(ret'.arg[1]), ret'.arg[2])

\* C19: delete(k) removes every tuple whose key is k, and delete(k, v) every
\* tuple whose key is k and whose value is v, adjacent matches included; it
\* returns the number of tuples removed, size goes down by that number and
\* the tuples that remain keep their relative order.
C19_DeleteReturnsCount == [][C19_Step]_vars

\* the places of the list that hold key, as the list stores it (lowercase)
C20_Places(key) == {i \in 1..Len(parameters) : parameters[i][1] = key}

\* the first of a non-empty set of places
C20_First(places) == CHOOSE i \in places : \A j \in places : i <= j

C20_Gets(key) ==
  /\ ~ret.threw
  /\ ret.value = IF C20_Places(key) = {} THEN Null
                 ELSE parameters[C20_First(C20_Places(key))][2]

\* C20: get(k) with a valid key returns the value of the first tuple in list
\* order whose key is k, and returns null when no tuple has that key.
C20_GetFirstOrNull ==
  (ret.op = "get" /\ IsToken(ret.arg)) => C20_Gets(ToLowerCase(ret.arg))

\* get has been called with a token that no tuple of the list carries
C21_Missing ==
  ret.op = "get" /\ IsToken(ret.arg) /\ C20_Places(ToLowerCase(ret.arg)) = {}

C22_Values(list) == [i \in 1..Len(list) |-> list[i][2]]

\* getAll, with the key as the list stores it (lowercase)
C22_GetsAll(key) ==
  /\ ~ret'.threw
  /\ ret'.value = C22_Values(SelectSeq(parameters, LAMBDA tuple : tuple[1] = key))
  /\ parameters' = parameters

C22_Step ==
  (ret'.op = "getAll" /\ IsToken(ret'.arg)) => C22_GetsAll(ToLowerCase(ret'.arg))

\* C22: getAll(k) with a valid key returns the values of exactly the tuples
\* whose key is k, in list order, and an empty array when there is none; it
\* does not change the list.
C22_GetAllInListOrder == [][C22_Step]_vars

\* getAll, given an uppercase key, has returned two values
C22_Witness == ret.op = "getAll" /\ ret.arg = <<"A">> /\ Len(ret.value) = 2

\* has(k): some tuple is stored under key; has(k, v): with the value as well
C23_Some(key, value) ==
  \E i \in 1..Len(parameters) :
    parameters[i][1] = key /\ (value = Undefined \/ parameters[i][2] = value)

\* the arguments has rejects: a key that is not a token, a value given that
\* is not restricted text
C23_Invalid(key, value) ==
  ~IsToken(key) \/ (value # Undefined /\ ~IsRestrictedText(value))

C23_Has(key, value) ==
  IF C23_Invalid(key, value) THEN ret.threw
  ELSE ~ret.threw /\ (ret.value <=> C23_Some(ToLowerCase(key), value))

\* C23: has(k) is true iff some tuple has key k, has(k, v) is true iff some
\* tuple has key k and value v, an empty-string v being compared like any
\* other value; both throw for an invalid key or an invalid value.
C23_HasIffSomeTuple == ret.op = "has" => C23_Has(ret.arg[1], ret.arg[2])

\* has(k, '') has returned false on a list with a tuple under k
C23_Witness ==
  /\ ret.op = "has" /\ ~ret.threw /\ ret.arg[2] = <<>> /\ ~ret.value
  /\ C23_Some(ToLowerCase(ret.arg[1]), Undefined)

\* how many times tuple is in list
C24_Count(list, tuple) == Cardinality({i \in 1..Len(list) : list[i] = tuple})

C24_Tuples(list) == {list[i] : i \in 1..Len(list)}

C24_SameMultiset(before, after) ==
  /\ Len(after) = Len(before)
  /\ \A tuple \in C24_Tuples(before) \cup C24_Tuples(after) :
       C24_Count(after, tuple) = C24_Count(before, tuple)

\* no key is followed by a key that precedes it in code-point order
C24_KeysNonDecreasing(list) ==
  \A i, j \in 1..Len(list) : i < j => ~StringLess(list[j][1], list[i][1])

\* the tuples of each key are in the order they were in
C24_EqualKeysKeepOrder(before, after) ==
  \A tuple \in C24_Tuples(before) :
    SelectSeq(after, LAMBDA other : other[1] = tuple[1])
      = SelectSeq(before, LAMBDA other : other[1] = tuple[1])

C24_Step ==
  (ret'.op = "sort" /\ ~ret'.threw)
    => /\ C24_SameMultiset(parameters, parameters')
       /\ C24_KeysNonDecreasing(parameters')
       /\ C24_EqualKeysKeepOrder(parameters, parameters')

\* C24: after sort() the list holds exactly the same tuples as before (same
\* multiset), the keys are in non-decreasing code-point order, and any two
\* tuples with equal keys are in the same relative order as before the sort.
C24_SortStableByKey == [][C24_Step]_vars

\* sort() has returned on a list of two tuples with one key, the greater
\* value first
C24_Witness ==
  /\ ret.op = "sort" /\ ~ret.threw /\ Len(parameters) = 2
  /\ parameters[1][1] = parameters[2][1]
  /\ parameters[1][2] = <<BS, DQ>> /\ parameters[2][2] = <<"a">>

\* one call per tuple, in list order, with (value, key, list)
C25_Calls(list) == [i \in 1..Len(list) |-> <<list[i][2], list[i][1], Held>>]

\* C25: forEach(cb) invokes cb exactly once per tuple in list order, with the
\* tuple's value as first argument, its key as second argument and the list
\* as third argument.
C25_CallbackValueKeyList ==
  ret.op = "forEach" => (~ret.threw /\ ret.value = C25_Calls(parameters))

\* the offset of the last c of s (s has one)
C26_LastIndexOf(s, c) ==
  CHOOSE i \in 0..(Len(s) - 1) : At(s, i) = c /\ \A j \in (i + 1)..(Len(s) - 1) : At(s, j) # c

\* the text of s after its first '='
C26_Written(s) == Slice(s, IndexOf(s, "=") + 1, Len(s))

\* the text between the first and the last quote of w, which starts with a quote
C26_Quoted(w) == Slice(w, 1, C26_LastIndexOf(w, DQ))

\* the token characters w starts with
C26_Token(w) ==
  Slice(w, 0, CHOOSE n \in 0..Len(w) :
                /\ \A i \in 0..(n - 1) : At(w, i) \in TokenChars
                /\ n < Len(w) => At(w, n) \notin TokenChars)

C26_Value(w) ==
  IF At(w, 0) = DQ THEN SelectSeq(C26_Quoted(w), LAMBDA c : c # BS) ELSE C26_Token(w)

\* a string with one parameter: no ';', and an '=' with text after it
C26_OneParameter(s) ==
  /\ \A i \in 0..(Len(s) - 1) : At(s, i) # ";"
  /\ IndexOf(s, "=") >= 0 /\ IndexOf(s, "=") < Len(s) - 1

\* C26: for a parameter parsed from a string, a double-quoted value is
\* stored as the text between the quotes with every backslash removed (an
\* escaped backslash yields no character), and an unquoted token value is
\* stored unchanged.
C26_QuotedValueUnescaped ==
  (/\ ret.op = "new MIMETypeParameters" /\ ~ret.threw
   /\ C26_OneParameter(ret.arg.str))
    => /\ Len(parameters) = 1
       /\ parameters[1][2] = C26_Value(C26_Written(ret.arg.str))

\* a value written as a character and an escaped backslash between quotes
\* is stored as the character
C26_Witness ==
  /\ ret.op = "new MIMETypeParameters" /\ ~ret.threw
  /\ ret.arg.str = <<"a", "=", DQ, "a", BS, BS, DQ>>
  /\ parameters = << <<<<"a">>, <<"a">>>> >>

\* s has the character c
C27_Has(s, c) == \E i \in 0..(Len(s) - 1) : At(s, i) = c

\* a string with one parameter and no quoted value, and with a U+000A: the
\* U+000A is between the ';' and the key, after the value, or in a place
\* where the grammar has no character at all
C27_LineFeedOutsideValue(s) ==
  C27_Has(s, LF) /\ ~C27_Has(s, DQ) /\ ~C27_Has(s, ";")

\* C27: the only characters the parameter parser skips between a ';' and the
\* key and after a value are SP and HTAB; a parameter string with any other
\* character in those positions, such as LF, is rejected.
C27_OnlySpaceAndTabSkipped ==
  (ret.op = "new MIMETypeParameters" /\ C27_LineFeedOutsideValue(ret.arg.str))
    => ret.threw

\* every pair has a token as key and restricted text as value
C28_PairsValid(pairs) ==
  \A i \in 1..Len(pairs) : IsToken(pairs[i][1]) /\ IsRestrictedText(pairs[i][2])

\* the pairs as append stores them, in their order
C28_Stored(pairs) == [i \in 1..Len(pairs) |-> <<ToLowerCase(pairs[i][1]), pairs[i][2]>>]

C28_Empty == ~ret.threw /\ parameters = <<>>

C28_Appended(pairs) ==
  /\ ret.threw <=> ~C28_PairsValid(pairs)
  /\ ~ret.threw => parameters = C28_Stored(pairs)

C28_Outcome(init) ==
  CASE init.tag = "undefined" -> C28_Empty
    [] init.tag = "string" /\ init.str = <<>> -> C28_Empty
    [] init.tag \in {"iterable", "object"} -> C28_Appended(init.pairs)
    [] init.tag = "null" -> ret.threw
    [] OTHER -> TRUE

\* C28: the MIMETypeParameters constructor yields the empty list for an
\* absent argument and for the empty string, appends the pairs of an iterable
\* in iteration order and the entries of a plain object in its enumeration
\* order (each pair validated, an invalid key or value making construction
\* throw), and throws for any other input such as null.
C28_ConstructorByInput == ret.op = "new MIMETypeParameters" => C28_Outcome(ret.arg)

\* the two entries of an object whose keys differ in case only have been
\* appended under one key
C28_Witness ==
  /\ ret.op = "new MIMETypeParameters" /\ ~ret.threw /\ ret.arg.tag = "object"
  /\ Len(parameters) = 2 /\ parameters[1][1] = parameters[2][1]

C29_Step ==
  (/\ ret'.op \in {"append", "set", "delete", "has"}
   /\ C23_Invalid(ret'.arg[1], ret'.arg[2]))
    => ret'.threw /\ parameters' = parameters

\* C29: append, set, delete and has validate both arguments before touching
\* the list: a call that throws because its key is not a token or its value
\* is not restricted text leaves the list exactly as it was; set(k,
\* invalidValue) removes none of the tuples with key k.
C29_InvalidCallLeavesList == [][C29_Step]_vars

\* set has thrown on a value that is not restricted text, on a list with a
\* tuple under the key
C29_Witness ==
  /\ ret.op = "set" /\ ret.threw
  /\ IsToken(ret.arg[1]) /\ ~IsRestrictedText(ret.arg[2])
  /\ C23_Some(ToLowerCase(ret.arg[1]), Undefined)
  /\ ~ListLocked

\* what the constructor gives on init in a program that has constructed
\* nothing yet (lastIndex is 0)
C30_Fresh(init) == ConstructParameters(variant, init, 0)

C30_SameAsFresh(c) == (ret.threw <=> c.threw) /\ (~c.threw => parameters = c.list)

====
